---- MODULE Spec2Model ----
(***************************************************************************)
(* Model of the SixtySecondsWorld plugin                                   *)
(* (src/plugins.v2/sixtyseconds/__init__.py): the configuration load, the  *)
(* fetch-and-cache of the daily Digest, the notification, the command      *)
(* handler and the two renders.                                            *)
(*                                                                         *)
(* Python values are modelled as follows.  A JSON value that can end up in *)
(* _data is a record [kind, val]: kind "dict" (val is the dict, a function *)
(* from its keys), "null" (None) or "list" (a non-empty JSON array, that   *)
(* is, a truthy value without a .get method).  Strings are strings; the    *)
(* Chinese literals of the source are written in ASCII.  A multi-line      *)
(* message is the sequence of its lines.  None inside a widget list is the *)
(* record NoneEl.                                                          *)
(*                                                                         *)
(* The source file as stored does not compile (a "]" is missing on line    *)
(* 313 and a ")" on line 386); the model reads line 386 as                 *)
(* enumerate(self._data.get('news', [])[:3]).                              *)
(***************************************************************************)
EXTENDS Integers, Sequences, FiniteSets, TLC

\* ------------------------------------------------------------ bounds
MaxNews == 6
NumDigests == 2
MaxClock == 2

\* ------------------------------------------------------------ constants
HTTP_OK == 200
CODE_OK == 200
NOTIFY_NEWS == 5
DASHBOARD_NEWS == 3

DEFAULT_CRON == "0 8 * * *"
TITLE == "60s"

\* ------------------------------------------------------------ Python values
EmptyDict == [k \in {} |-> ""]

JDict(d) == [kind |-> "dict", val |-> d]
JNull == [kind |-> "null", val |-> EmptyDict]
JList == [kind |-> "list", val |-> EmptyDict]

\* bool(x) of a value held in _data
Truthy(j) == \/ j.kind = "list"
             \/ j.kind = "dict" /\ DOMAIN j.val # {}

\* whether x.get exists (otherwise the call raises AttributeError)
HasGet(j) == j.kind = "dict"

\* dict.get(key, default)
Get(j, key, default) == IF key \in DOMAIN j.val THEN j.val[key] ELSE default

Min(a, b) == IF a < b THEN a ELSE b

\* seq[:n]
Take(s, n) == SubSeq(s, 1, Min(n, Len(s)))

\* ------------------------------------------------------------ inputs
NewsItem(k, i) == "n" \o ToString(k) \o "-" \o ToString(i)

Digest(k, n) ==
  JDict([date  |-> "D" \o ToString(k),
         tip   |-> "T" \o ToString(k),
         cover |-> "C" \o ToString(k),
         news  |-> [i \in 1..n |-> NewsItem(k, i)],
         link  |-> "L" \o ToString(k)])

\* a data field with only some of the keys
PartialDigest(k) ==
  JDict([date |-> "D" \o ToString(k), link |-> "L" \o ToString(k)])

Digests == {Digest(k, n) : k \in 1..NumDigests, n \in 0..MaxNews}

DataValues == Digests \cup {PartialDigest(1), JDict(EmptyDict), JNull, JList}

\* what RequestUtils.get_res returns: status 0 stands for no response
\* (None); body is "invalid" (not JSON), "array" (JSON but no dict) or
\* "envelope" with code (0: no code key), hasData and data.
Response(status, body, code, hasData, data) ==
  [status |-> status, body |-> body, code |-> code,
   hasData |-> hasData, data |-> data]

NoResponse == Response(0, "invalid", 0, FALSE, JNull)
FailedResponses ==
  {NoResponse,
   Response(500, "envelope", CODE_OK, TRUE, Digest(1, 1)),
   Response(HTTP_OK, "invalid", 0, FALSE, JNull),
   Response(HTTP_OK, "array", 0, FALSE, JNull),
   Response(HTTP_OK, "envelope", 500, TRUE, Digest(2, 1)),
   Response(HTTP_OK, "envelope", 0, TRUE, Digest(2, 1))}
Ok(d) == Response(HTTP_OK, "envelope", CODE_OK, TRUE, d)
\* a successful envelope without a data key
OkNoData == Response(HTTP_OK, "envelope", CODE_OK, FALSE, JNull)
OkResponses(D) == {Ok(d) : d \in D} \cup {OkNoData}

\* configuration dicts handed to init_plugin; present = FALSE is None / {}
Config(enabled, cron, notify, onlyonce, cover) ==
  [present |-> TRUE, enabled |-> enabled, cron |-> cron, notify |-> notify,
   onlyonce |-> onlyonce, cover |-> cover]
NoConfig ==
  [present |-> FALSE, enabled |-> FALSE, cron |-> "", notify |-> FALSE,
   onlyonce |-> FALSE, cover |-> FALSE]
Crons == {DEFAULT_CRON, "every day", ""}
Configs(E, C, N, O, V) ==
  {Config(e, c, n, o, v) : e \in E, c \in C, n \in N, o \in O, v \in V}
    \cup {NoConfig}

\* CronTrigger.from_crontab(expr) succeeds (five fields); otherwise it
\* raises ValueError
CronValid(expr) == expr = DEFAULT_CRON

\* events delivered to handle_action
Events == {"None", "no_data", "other_action", "sixty_seconds"}

\* ------------------------------------------------------------ __send_notify
\* f"{idx+1}. {item}" for idx, item in enumerate(items)
Numbered(items) == [i \in 1..Len(items) |-> ToString(i) \o ". " \o items[i]]

\* NotifyText without the [:5] slice
NotifyText_all(data) ==
  <<"[" \o TITLE \o " | " \o Get(data, "date", "") \o "]",
    Get(data, "tip", ""),
    "">>
    \o Numbered(Get(data, "news", <<>>))
    \o <<"", "link: " \o Get(data, "link", "")>>

\* the notification text, line by line ("\n" separates the lines)
NotifyText(data) ==
  <<"[" \o TITLE \o " | " \o Get(data, "date", "") \o "]",
    Get(data, "tip", ""),
    "">>
    \o Numbered(Take(Get(data, "news", <<>>), NOTIFY_NEWS))
    \o <<"", "link: " \o Get(data, "link", "")>>

Message(text) == [mtype |-> "SiteMessage", title |-> TITLE, text |-> text]

\* __send_notify on the cached value: the messages handed to post_message
\* and whether the call raised
send_notify(data) ==
  IF ~Truthy(data) THEN [raised |-> FALSE, posts |-> <<>>]
  ELSE IF ~HasGet(data) THEN [raised |-> TRUE, posts |-> <<>>]
  ELSE [raised |-> FALSE, posts |-> <<Message(NotifyText(data))>>]

\* ------------------------------------------------------------ widgets
NoneEl == [component |-> "None"]

NoDataPage ==
  <<[component |-> "div", text |-> "no data",
     props |-> [class |-> "text-center", style |-> "margin-top: 50px"]]>>

PageCover(src, cover) ==
  IF cover
  THEN [component |-> "VImg",
        props |-> [src |-> src, maxwidth |-> "100%", class |-> "mb-4"]]
  ELSE NoneEl

PageNews(news) ==
  LET lines == Numbered(news)
  IN  [i \in 1..Len(lines) |->
         [component |-> "div", props |-> [class |-> "mb-2"],
          text |-> lines[i]]]

\* the card of get_page from the values read out of the Digest
PageTree(date, tip, coverEl, news, link) ==
  <<[component |-> "VCard",
     content |-> <<
       [component |-> "div", props |-> [class |-> "pa-4"],
        content |-> <<
          [component |-> "div", props |-> [class |-> "text-h5 mb-2"],
           text |-> TITLE \o " | " \o date],
          [component |-> "div", props |-> [class |-> "text-caption mb-3"],
           text |-> tip],
          coverEl,
          [component |-> "div", content |-> PageNews(news)],
          [component |-> "div", props |-> [class |-> "mt-4"],
           content |-> <<
             [component |-> "a",
              props |-> [href |-> link, target |-> "_blank",
                         class |-> "text-decoration-none"],
              text |-> "details"]>>]>>]>>]>>

Returned(value) == [raised |-> FALSE, value |-> value]
Raised == [raised |-> TRUE, value |-> <<>>]

get_page(data, cover) ==
  IF ~Truthy(data) THEN Returned(NoDataPage)
  ELSE IF ~HasGet(data) THEN Raised
  ELSE Returned(PageTree(Get(data, "date", ""), Get(data, "tip", ""),
                         PageCover(Get(data, "cover", ""), cover),
                         Get(data, "news", <<>>), Get(data, "link", "")))

DashCover(src, cover) ==
  IF cover
  THEN [component |-> "VImg",
        props |-> [src |-> src, maxwidth |-> "100%", height |-> "auto"]]
  ELSE NoneEl

\* DashNews without the [:3] slice
DashNews_all(news) ==
  LET lines == Numbered(news)
  IN  [i \in 1..Len(lines) |->
         [component |-> "div", props |-> [class |-> "mb-1 text-truncate"],
          text |-> lines[i]]]

DashNews(news) ==
  LET lines == Numbered(Take(news, DASHBOARD_NEWS))
  IN  [i \in 1..Len(lines) |->
         [component |-> "div", props |-> [class |-> "mb-1 text-truncate"],
          text |-> lines[i]]]

\* dashboard_content of get_dashboard
DashTree(date, tip, coverEl, news, link) ==
  <<[component |-> "VCard", props |-> [class |-> "h-100"],
     content |-> <<
       [component |-> "VCardItem",
        content |-> <<
          [component |-> "VCardTitle", props |-> [class |-> "pa-2"],
           text |-> TITLE \o " | " \o date],
          [component |-> "VCardSubtitle", props |-> [class |-> "pa-2"],
           text |-> tip]>>],
       [component |-> "VCardText", props |-> [class |-> "pa-2"],
        content |-> <<coverEl>>],
       [component |-> "VCardText", props |-> [class |-> "pa-2"],
        content |-> DashNews(news)],
       [component |-> "VCardActions", props |-> [class |-> "pa-2"],
        content |-> <<
          [component |-> "VBtn",
           props |-> [variant |-> "text", color |-> "primary",
                      href |-> link, target |-> "_blank"],
           text |-> "details"]>>]>>]>>

DashNone == [kind |-> "None"]
DashTuple(content) ==
  [kind |-> "tuple", cols |-> [cols |-> 12, md |-> 6],
   attrs |-> [border |-> FALSE], content |-> content]

get_dashboard(data, cover) ==
  IF ~Truthy(data) THEN Returned(DashNone)
  ELSE IF ~HasGet(data) THEN Raised
  ELSE Returned(DashTuple(
         DashTree(Get(data, "date", ""), Get(data, "tip", ""),
                  DashCover(Get(data, "cover", ""), cover),
                  Get(data, "news", <<>>), Get(data, "link", ""))))

\* ------------------------------------------------------------ __fetch_data
\* fetch_data updating the cached dict in place (dict.update) instead of
\* replacing it
fetch_data_update(r, data, last_update, notify, clock) ==
  IF r.status = HTTP_OK /\ r.body = "envelope" /\ r.code = CODE_OK
  THEN LET got == IF r.hasData THEN r.data ELSE JDict(EmptyDict)
           new == IF HasGet(got) /\ HasGet(data)
                  THEN JDict([k \in DOMAIN data.val \cup DOMAIN got.val |->
                                IF k \in DOMAIN got.val THEN got.val[k]
                                ELSE data.val[k]])
                  ELSE got
           sent == IF notify THEN send_notify(new)
                   ELSE [raised |-> FALSE, posts |-> <<>>]
       IN  [data |-> new, last_update |-> clock, posts |-> sent.posts,
            ret |-> ~sent.raised]
  ELSE [data |-> data, last_update |-> last_update, posts |-> <<>>,
        ret |-> FALSE]

\* One call of __fetch_data with response r: the new _data and
\* _last_update (clock is datetime.now()), the messages posted, and the
\* value returned.
fetch_data(r, data, last_update, notify, clock) ==
  IF r.status = HTTP_OK /\ r.body = "envelope" /\ r.code = CODE_OK
  THEN LET new == IF r.hasData THEN r.data ELSE JDict(EmptyDict)
           sent == IF notify THEN send_notify(new)
                   ELSE [raised |-> FALSE, posts |-> <<>>]
       IN  [data |-> new, last_update |-> clock, posts |-> sent.posts,
            ret |-> ~sent.raised]
  ELSE [data |-> data, last_update |-> last_update, posts |-> <<>>,
        ret |-> FALSE]

\* ------------------------------------------------------------ get_service
get_service(enabled, cron) ==
  IF ~enabled THEN "empty"
  ELSE IF CronValid(cron) THEN "service"
  ELSE "raised"

\* ------------------------------------------------------------ state
VARIABLES
  _enabled, _cron, _notify, _onlyonce, _cover,  \* the configuration
  _last_update,      \* 0 is None
  _scheduler,        \* "None", "created" (no job, not started), "running"
  _data,             \* the cached Digest
  saved,             \* the configuration last persisted by update_config
  sysmsg,            \* systemmessage received the cron error
  now,               \* the clock
  pc,                \* where the thread running the plugin's handlers is
  op,                \* the handler it runs or ran last, and its argument
  posted,            \* messages handed to post_message by that handler
  fetches,           \* __fetch_data calls made by that handler
  call,              \* the last __fetch_data call: value before, response,
                     \* value returned
  q,                 \* the last get_state / get_service answer
  out,               \* the last render's result
  rd                 \* the locals of a render in progress

conf == <<_enabled, _cron, _notify, _onlyonce, _cover>>
vars == <<_enabled, _cron, _notify, _onlyonce, _cover, _last_update,
          _scheduler, _data, saved, sysmsg, now, pc, op, posted, fetches,
          call, q, out, rd>>

Op(name, event, config) == [name |-> name, event |-> event, config |-> config]
NoCall == [ret |-> "none", pre |-> JDict(EmptyDict), resp |-> NoResponse,
           at |-> 0]
NoQuery == <<"none", "">>
NoOut == [op |-> "none", raised |-> FALSE, value |-> <<>>]
RdIdle == [pc |-> "idle", op |-> "none", date |-> "", tip |-> "",
           cover |-> NoneEl, news |-> <<>>, link |-> ""]

Init ==
  /\ _enabled = FALSE
  /\ _cron = DEFAULT_CRON
  /\ _notify = FALSE
  /\ _onlyonce = FALSE
  /\ _cover = TRUE
  /\ _last_update = 0
  /\ _scheduler = "None"
  /\ _data = JDict(EmptyDict)
  /\ saved = NoConfig
  /\ sysmsg = FALSE
  /\ now = 1
  /\ pc = "idle"
  /\ op = Op("none", "", NoConfig)
  /\ posted = <<>>
  /\ fetches = 0
  /\ call = NoCall
  /\ q = NoQuery
  /\ out = NoOut
  /\ rd = RdIdle

\* ------------------------------------------------------------ init_plugin
\* stop_service, then the configuration is loaded (lines 49-56)
InitPlugin(config) ==
  /\ pc = "idle"
  /\ _scheduler' = "None"
  /\ IF config.present
     THEN /\ _enabled' = config.enabled
          /\ _cron' = config.cron
          /\ _notify' = config.notify
          /\ _onlyonce' = config.onlyonce
          /\ _cover' = config.cover
     ELSE UNCHANGED conf
  /\ pc' = IF _onlyonce' THEN "init_once" ELSE "init_sched"
  /\ op' = Op("init_plugin", "", config)
  /\ posted' = <<>>
  /\ fetches' = 0
  /\ sysmsg' = FALSE
  /\ q' = NoQuery
  /\ UNCHANGED <<_last_update, _data, saved, now, call, out, rd>>

\* InitOnlyOnce persisting the flag as it was loaded
InitOnlyOnce_keep ==
  /\ pc = "init_once"
  /\ _onlyonce' = FALSE
  /\ saved' = Config(_enabled, _cron, _notify, _onlyonce, _cover)
  /\ pc' = "init_fetch"
  /\ UNCHANGED <<_enabled, _cron, _notify, _cover, _last_update, _scheduler,
                 _data, sysmsg, now, op, posted, fetches, call, q, out, rd>>

\* the flag is reset and the configuration persisted (lines 60-67)
InitOnlyOnce ==
  /\ pc = "init_once"
  /\ _onlyonce' = FALSE
  /\ saved' = Config(_enabled, _cron, _notify, FALSE, _cover)
  /\ pc' = "init_fetch"
  /\ UNCHANGED <<_enabled, _cron, _notify, _cover, _last_update, _scheduler,
                 _data, sysmsg, now, op, posted, fetches, call, q, out, rd>>

\* A call of __fetch_data that receives r, made at pc from; first says
\* that the call opens a new handler run.
Fetch(r, from, to, first) ==
  LET f == fetch_data(r, _data, _last_update, _notify, now)
  IN  /\ pc = from
      /\ _data' = f.data
      /\ _last_update' = f.last_update
      /\ now' = Min(now + 1, MaxClock)
      /\ posted' = IF first THEN f.posts ELSE posted \o f.posts
      /\ fetches' = IF first THEN 1 ELSE fetches + 1
      /\ call' = [ret |-> IF f.ret THEN "True" ELSE "False", pre |-> _data,
                  resp |-> r, at |-> now]
      /\ pc' = to

InitFetch(r) ==
  /\ Fetch(r, "init_fetch", "init_sched", FALSE)
  /\ UNCHANGED <<conf, _scheduler, saved, sysmsg, op, q, out, rd>>

\* the scheduler is created, the job added and started (lines 71-89)
InitSchedule ==
  /\ pc = "init_sched"
  /\ _scheduler' =
       IF ~_enabled THEN _scheduler
       ELSE IF _cron # "" /\ CronValid(_cron) THEN "running"
       ELSE "created"
  /\ sysmsg' = (_enabled /\ _cron # "" /\ ~CronValid(_cron))
  /\ pc' = "idle"
  /\ UNCHANGED <<conf, _last_update, _data, saved, now, op, posted, fetches,
                 call, q, out, rd>>

\* ------------------------------------------------------------ the cron job
ScheduledFetch(r) ==
  /\ _scheduler = "running"
  /\ Fetch(r, "idle", "idle", TRUE)
  /\ op' = Op("job", "", NoConfig)
  /\ UNCHANGED <<conf, _scheduler, saved, sysmsg, q, out, rd>>

\* ------------------------------------------------------------ handle_action
\* the guards of lines 494-499; only the "sixty_seconds" action goes on
HandleAction(event) ==
  /\ pc = "idle"
  /\ pc' = IF event = "sixty_seconds" THEN "act_fetch" ELSE "idle"
  /\ op' = Op("handle_action", event, NoConfig)
  /\ posted' = <<>>
  /\ fetches' = 0
  /\ UNCHANGED <<conf, _last_update, _scheduler, _data, saved, sysmsg, now,
                 call, q, out, rd>>

\* line 502
ActFetch(r) ==
  /\ Fetch(r, "act_fetch", "act_notify", FALSE)
  /\ UNCHANGED <<conf, _scheduler, saved, sysmsg, op, q, out, rd>>

\* lines 505-506
ActNotify ==
  /\ pc = "act_notify"
  /\ posted' = IF _notify THEN posted \o send_notify(_data).posts ELSE posted
  /\ pc' = "idle"
  /\ UNCHANGED <<conf, _last_update, _scheduler, _data, saved, sysmsg, now,
                 op, fetches, call, q, out, rd>>

\* ------------------------------------------------------------ host queries
GetState ==
  /\ q' = <<"get_state", IF _enabled THEN "True" ELSE "False">>
  /\ UNCHANGED <<conf, _last_update, _scheduler, _data, saved, sysmsg, now,
                 pc, op, posted, fetches, call, out, rd>>

GetService ==
  /\ q' = <<"get_service", get_service(_enabled, _cron)>>
  /\ UNCHANGED <<conf, _last_update, _scheduler, _data, saved, sysmsg, now,
                 pc, op, posted, fetches, call, out, rd>>

\* ------------------------------------------------------------ renders
Out(name, res) == [op |-> name, raised |-> res.raised, value |-> res.value]

GetPage ==
  /\ rd.pc = "idle"
  /\ out' = Out("get_page", get_page(_data, _cover))
  /\ UNCHANGED <<conf, _last_update, _scheduler, _data, saved, sysmsg, now,
                 pc, op, posted, fetches, call, q, rd>>

GetDashboard ==
  /\ rd.pc = "idle"
  /\ out' = Out("get_dashboard", get_dashboard(_data, _cover))
  /\ UNCHANGED <<conf, _last_update, _scheduler, _data, saved, sysmsg, now,
                 pc, op, posted, fetches, call, q, rd>>

\* ------------------------------------------------------------ renders, read by read
\* A render running on the host's request thread while the handlers above
\* run on theirs: every "self._data" of get_page / get_dashboard is one
\* read of the attribute, in the order in which Python evaluates the
\* displays (the test, date, tip, cover, news, link).
writerVars == <<_enabled, _cron, _notify, _onlyonce, _cover, _last_update,
                _scheduler, _data, saved, sysmsg, now, pc, op, posted,
                fetches, call, q>>

\* the render raises: the locals are dropped
RenderRaise ==
  /\ out' = Out(rd.op, Raised)
  /\ rd' = RdIdle

\* "if not self._data" (lines 234, 317)
RenderTest(name) ==
  /\ rd.pc = "idle"
  /\ IF Truthy(_data)
     THEN /\ rd' = [rd EXCEPT !.pc = "date", !.op = name]
          /\ out' = NoOut
     ELSE /\ rd' = RdIdle
          /\ out' = Out(name, IF name = "get_page" THEN Returned(NoDataPage)
                              ELSE Returned(DashNone))
  /\ UNCHANGED writerVars

RenderDate ==
  /\ rd.pc = "date"
  /\ IF HasGet(_data)
     THEN /\ rd' = [rd EXCEPT !.pc = "tip", !.date = Get(_data, "date", "")]
          /\ UNCHANGED out
     ELSE RenderRaise
  /\ UNCHANGED writerVars

RenderTip ==
  /\ rd.pc = "tip"
  /\ IF HasGet(_data)
     THEN /\ rd' = [rd EXCEPT !.pc = "cover", !.tip = Get(_data, "tip", "")]
          /\ UNCHANGED out
     ELSE RenderRaise
  /\ UNCHANGED writerVars

\* "{... self._data.get('cover', '') ...} if self._cover else None"
RenderCover ==
  /\ rd.pc = "cover"
  /\ IF ~_cover
     THEN /\ rd' = [rd EXCEPT !.pc = "news", !.cover = NoneEl]
          /\ UNCHANGED out
     ELSE IF HasGet(_data)
     THEN /\ rd' = [rd EXCEPT !.pc = "news",
                              !.cover = IF rd.op = "get_page"
                                        THEN PageCover(Get(_data, "cover", ""), TRUE)
                                        ELSE DashCover(Get(_data, "cover", ""), TRUE)]
          /\ UNCHANGED out
     ELSE RenderRaise
  /\ UNCHANGED writerVars

RenderNews ==
  /\ rd.pc = "news"
  /\ IF HasGet(_data)
     THEN /\ rd' = [rd EXCEPT !.pc = "link", !.news = Get(_data, "news", <<>>)]
          /\ UNCHANGED out
     ELSE RenderRaise
  /\ UNCHANGED writerVars

\* the last read, and the return
RenderLink ==
  /\ rd.pc = "link"
  /\ IF HasGet(_data)
     THEN LET link == Get(_data, "link", "")
          IN  /\ out' = Out(rd.op,
                     IF rd.op = "get_page"
                     THEN Returned(PageTree(rd.date, rd.tip, rd.cover,
                                            rd.news, link))
                     ELSE Returned(DashTuple(DashTree(rd.date, rd.tip,
                                            rd.cover, rd.news, link))))
              /\ rd' = RdIdle
     ELSE RenderRaise
  /\ UNCHANGED writerVars

\* ------------------------------------------------------------ specifications
\* The handlers under every configuration, with a failing and a
\* successful response, and the host's queries.
LifeConfigs == Configs(BOOLEAN, Crons, BOOLEAN, BOOLEAN, BOOLEAN)
LifeResponses == {NoResponse, Ok(Digest(1, 1))}

Next ==
  \/ \E c \in LifeConfigs : InitPlugin(c)
  \/ InitOnlyOnce
  \/ \E r \in LifeResponses : InitFetch(r)
  \/ InitSchedule
  \/ \E r \in LifeResponses : ScheduledFetch(r)
  \/ \E e \in Events : HandleAction(e)
  \/ \E r \in LifeResponses : ActFetch(r)
  \/ ActNotify
  \/ GetState
  \/ GetService

Spec == Init /\ [][Next]_vars

\* The handlers under every response, with the plugin enabled on the
\* default cron.
FetchConfigs == Configs({TRUE}, {DEFAULT_CRON}, BOOLEAN, BOOLEAN, {TRUE})
FetchResponses == FailedResponses \cup OkResponses(DataValues)

NextFetch ==
  \/ \E c \in FetchConfigs : InitPlugin(c)
  \/ InitOnlyOnce
  \/ \E r \in FetchResponses : InitFetch(r)
  \/ InitSchedule
  \/ \E r \in FetchResponses : ScheduledFetch(r)
  \/ \E e \in Events : HandleAction(e)
  \/ \E r \in FetchResponses : ActFetch(r)
  \/ ActNotify

SpecFetch == Init /\ [][NextFetch]_vars

\* The renders, from every cached value a fetch can leave and both values
\* of the cover flag.
InitRender ==
  /\ _enabled = TRUE
  /\ _cron = DEFAULT_CRON
  /\ _notify = FALSE
  /\ _onlyonce = FALSE
  /\ _cover \in BOOLEAN
  /\ _last_update = 1
  /\ _scheduler = "running"
  /\ _data \in DataValues
  /\ saved = NoConfig
  /\ sysmsg = FALSE
  /\ now = Min(2, MaxClock)
  /\ pc = "idle"
  /\ op = Op("job", "", NoConfig)
  /\ posted = <<>>
  /\ fetches = 1
  /\ call = [ret |-> "True", pre |-> JDict(EmptyDict),
             resp |-> Ok(_data),
             at |-> 1]
  /\ q = NoQuery
  /\ out = NoOut
  /\ rd = RdIdle

NextRender ==
  \/ GetPage
  \/ GetDashboard

SpecRender == InitRender /\ [][NextRender]_vars

\* A render read by read, beside the handlers.
ConcConfigs == Configs({TRUE}, {DEFAULT_CRON}, {FALSE}, {FALSE}, BOOLEAN)
ConcResponses == {Ok(Digest(1, 1)), Ok(Digest(2, 2)), Ok(JNull)}

NextConc ==
  \/ \E c \in ConcConfigs : InitPlugin(c)
  \/ InitSchedule
  \/ \E r \in ConcResponses : ScheduledFetch(r)
  \/ \E name \in {"get_page", "get_dashboard"} : RenderTest(name)
  \/ RenderDate
  \/ RenderTip
  \/ RenderCover
  \/ RenderNews
  \/ RenderLink

SpecConc == Init /\ [][NextConc]_vars

\* ------------------------------------------------------------ claims
EnvelopeOk(r) == r.status = 200 /\ r.body = "envelope" /\ r.code = 200
DataField(r) == IF r.hasData THEN r.data ELSE JDict(EmptyDict)

\* C1: a call of __fetch_data that returns False leaves _data as it was
\* before the call.
C1_FailedFetchKeepsData ==
  call.ret = "False" => _data = call.pre

\* C2: once a Digest is present it stays present: no step of the plugin
\* takes _data from a value the renders show to one they show as no data.
C2_NeverBackToNoData ==
  [][Truthy(_data) => Truthy(_data')]_vars

SameResult(a, b) ==
  /\ a.raised = b.raised
  /\ ~a.raised => a.value = b.value

\* C3: the result of a render that ran beside the handlers is the render
\* of one single cached value (with one value of the cover flag).
C3_RenderFromOneDigest ==
  /\ out.op = "get_page" =>
       \E d \in DataValues, c \in BOOLEAN : SameResult(out, get_page(d, c))
  /\ out.op = "get_dashboard" =>
       \E d \in DataValues, c \in BOOLEAN :
         SameResult(out, get_dashboard(d, c))

\* C4: after a call of __fetch_data that received HTTP 200 and an envelope
\* with code 200, _data is the data field of that response and
\* _last_update is the time of the call; and in every state _data is
\* either empty or the whole data field of one successful response.
C4_SuccessReplacesWholesale ==
  /\ (call.ret # "none" /\ EnvelopeOk(call.resp)) =>
       /\ _data = DataField(call.resp)
       /\ _last_update = call.at
       /\ _last_update # 0
  /\ Truthy(_data) =>
       \E r \in FetchResponses :
         EnvelopeOk(r) /\ r.hasData /\ _data = r.data

\* a Digest was replaced by the data field of a later response
C4_Witness ==
  /\ pc = "idle"
  /\ EnvelopeOk(call.resp)
  /\ Truthy(call.pre)
  /\ Truthy(_data)
  /\ _data # call.pre
  /\ _data = PartialDigest(1)

\* C5: with the plugin enabled on an invalid cron expression, init_plugin
\* ends with no job scheduled, get_state answers True and get_service
\* does not raise.
C5_InvalidCronHarmless ==
  (op.name = "init_plugin" /\ pc = "idle" /\ _enabled /\ ~CronValid(_cron)) =>
     /\ _scheduler # "running"
     /\ q[1] = "get_state" => q[2] = "True"
     /\ q[1] = "get_service" => q[2] # "raised"

\* the tree with its cover image elements deleted
PageWithoutCover(t) ==
  [t EXCEPT ![1].content[1].content =
              SelectSeq(@, LAMBDA e : e.component # "VImg")]
DashWithoutCover(v) ==
  [v EXCEPT !.content[1].content[2].content =
              SelectSeq(@, LAMBDA e : e.component # "VImg")]

\* C6: with cover = false each render's output is its output with
\* cover = true with exactly the cover image element deleted.
C6_CoverElementDeleted ==
  (~_cover /\ ~out.raised /\ Truthy(_data)) =>
     /\ out.op = "get_page" =>
          out.value = PageWithoutCover(get_page(_data, TRUE).value)
     /\ out.op = "get_dashboard" =>
          out.value = DashWithoutCover(get_dashboard(_data, TRUE).value)

\* C7: every message posted carries the title and tip lines, then exactly
\* the first min(n, 5) news items of the Digest in order, numbered from 1,
\* then the link line; with no Digest nothing is posted.
C7_NotifyFirstFive ==
  /\ ~Truthy(_data) => posted = <<>>
  /\ \A i \in 1..Len(posted) :
       LET t == posted[i].text
           news == Get(_data, "news", <<>>)
           m == IF Len(news) < 5 THEN Len(news) ELSE 5
       IN  /\ Len(t) = m + 5
           /\ t[1] = "[60s | " \o Get(_data, "date", "") \o "]"
           /\ t[2] = Get(_data, "tip", "")
           /\ t[3] = ""
           /\ \A j \in 1..m : t[3 + j] = ToString(j) \o ". " \o news[j]
           /\ t[m + 4] = ""
           /\ t[m + 5] = "link: " \o Get(_data, "link", "")

\* a message was posted for a Digest of more than five news items
C7_Witness ==
  /\ Len(posted) > 0
  /\ Len(Get(_data, "news", <<>>)) > 5

NewsTexts(els) == [i \in 1..Len(els) |-> els[i].text]
FirstNumbered(news, m) == [j \in 1..m |-> ToString(j) \o ". " \o news[j]]

\* C8: with a Digest of n news items the dashboard lists the first
\* min(n, 3) and the page all n, numbered from 1 in order; with no Digest
\* the page is the placeholder and the dashboard None, and neither raises.
C8_RenderNewsLists ==
  LET news == Get(_data, "news", <<>>)
      n == Len(news)
  IN  /\ (out.op = "get_page" /\ Truthy(_data) /\ HasGet(_data)) =>
           /\ ~out.raised
           /\ NewsTexts(out.value[1].content[1].content[4].content)
                = FirstNumbered(news, n)
      /\ (out.op = "get_dashboard" /\ Truthy(_data) /\ HasGet(_data)) =>
           /\ ~out.raised
           /\ NewsTexts(out.value.content[1].content[3].content)
                = FirstNumbered(news, IF n < 3 THEN n ELSE 3)
      /\ (out.op = "get_page" /\ ~Truthy(_data)) =>
           /\ ~out.raised
           /\ out.value = NoDataPage
      /\ (out.op = "get_dashboard" /\ ~Truthy(_data)) =>
           /\ ~out.raised
           /\ out.value = [kind |-> "None"]

\* the dashboard was rendered from a Digest of more than three news items
C8_Witness ==
  /\ out.op = "get_dashboard"
  /\ ~out.raised
  /\ Len(Get(_data, "news", <<>>)) > 3

\* C9: init_plugin with onlyonce = true calls __fetch_data exactly once,
\* enabled or not, after resetting _onlyonce and persisting the
\* configuration with onlyonce = false and the other four options as
\* given; init_plugin with the persisted configuration does not fetch.
C9_OnlyOnceConsumed ==
  /\ saved.onlyonce = FALSE
  /\ pc = "init_fetch" =>
       /\ op.config.present /\ op.config.onlyonce
       /\ _onlyonce = FALSE
       /\ saved = [op.config EXCEPT !.onlyonce = FALSE]
       /\ fetches = 0
  /\ (op.name = "init_plugin" /\ pc \in {"init_sched", "idle"}) =>
       /\ fetches = IF op.config.present /\ op.config.onlyonce THEN 1 ELSE 0
       /\ _onlyonce = FALSE
       /\ op.config.present =>
            /\ _enabled = op.config.enabled
            /\ _cron = op.config.cron
            /\ _notify = op.config.notify
            /\ _cover = op.config.cover
  /\ (op.name = "init_plugin" /\ saved.present /\ op.config = saved) =>
       /\ pc \in {"init_sched", "idle"}
       /\ fetches = 0

\* a disabled plugin fetched once on load, and the configuration it
\* persisted was loaded afterwards without a fetch
C9_Witness ==
  /\ op.name = "init_plugin"
  /\ pc = "idle"
  /\ saved.present
  /\ ~saved.enabled
  /\ op.config = saved
  /\ fetches = 0
  /\ call.ret # "none"

\* C10: one handle_action posts at most one message: one when notify is on
\* and the fetch succeeded, none when notify is off or the fetch failed;
\* an empty event or another action fetches nothing and posts nothing.
C10_AtMostOneNotification ==
  (op.name = "handle_action" /\ pc = "idle") =>
     IF op.event = "sixty_seconds"
     THEN /\ Len(posted) <= 1
          /\ (_notify /\ call.ret = "True") => Len(posted) = 1
          /\ (~_notify \/ call.ret = "False") => posted = <<>>
     ELSE fetches = 0 /\ posted = <<>>

====
